---- MODULE Spec2Model ----
(***************************************************************************)
(* Model of the Ark image-building scripts:                                *)
(*   scripts/create_disk_with_init.py  (FAT32 image with a staged tree)    *)
(*   scripts/create_bootable_image.py  (flat image variant)                *)
(*   scripts/create_initramfs_zip.py   (archive packaging)                 *)
(* One run of one command-line program is one behaviour.  Every external   *)
(* command (parted, losetup, mkfs, mount, umount) is an environment step   *)
(* whose exit status is chosen nondeterministically; every command and     *)
(* every file-system operation of the run is appended to log.              *)
(***************************************************************************)
EXTENDS Integers, Sequences, FiniteSets, TLC

VARIABLES
    prog,          \* which script runs
    argsOk,        \* enough positional arguments were given
    sizeArg,       \* the optional [size_mb] argument: <<>> when absent, else <<n>>
    kernelExists,  \* os.path.exists(kernel_path)
    initExists,    \* os.path.exists(init_bin_path) / os.path.isfile(init_bin)
    initData,      \* the bytes of the init binary
    extras,        \* create_initramfs_zip: the extra_file[:zip_path] arguments
    preImage,      \* the file at output_image before the run
    image,         \* the file at output_image
    pc,            \* position of the run
    log,           \* commands and file operations executed so far
    loopdev,       \* the local loopdev ("" is None / empty)
    bound,         \* loopdev is attached to the image by this run
    p1Node,        \* the partition node <loopdev>p1 exists
    partition_dev, \* the local partition_dev
    mounted,       \* the volume is mounted at the temporary directory
    tmpdir,        \* the temporary directory exists
    tree,          \* paths present on the mounted volume
    archive,       \* create_initramfs_zip: the members written to the ZIP
    exc,           \* an exception is propagating
    warnings,      \* "[!]" / "::" messages printed
    retval,        \* what the pipeline function returned
    exitCode       \* the process exit status: <<>> while running, else <<code>>

vars == <<prog, argsOk, sizeArg, kernelExists, initExists, initData, extras,
          preImage, image, pc, log, loopdev, bound, p1Node, partition_dev, mounted,
          tmpdir, tree, archive, exc, warnings, retval, exitCode>>

----------------------------------------------------------------------------
(* Bounds and program constants *)

MaxSizeMb == 2

DefaultSizeDisk == 256

DefaultSizeFlat == 128

BytesPerMb == 1024 * 1024

MaxExtras == 2

MaxFileLen == 2

DiskProg == "create_disk_with_init"

FlatProg == "create_bootable_image"

ZipProg == "create_initramfs_zip"

\* file contents: byte strings of at most MaxFileLen bytes over two byte values
Bytes == {0, 1}

FileData == UNION {[1 .. n -> Bytes] : n \in 0 .. MaxFileLen}

\* the host files an extra argument can name; "nofile" does not exist
ExtraHosts == {"bin/sh", "alt/init", "nofile"}

HostIsFile(host) == host # "nofile"

HostData(host) == IF host = "bin/sh" THEN <<1>> ELSE <<1, 0>>

\* the zip_path part of an extra argument
ZipPaths == {"init", "/init", "bin/sh"}

\* an extra argument: "host" (dest = <<>>) or "host:zip_path" (dest = <<zip_path>>)
ExtraArgs == [host : ExtraHosts, dest : {<<>>} \cup {<<z>> : z \in ZipPaths}]

ExtraLists == UNION {[1 .. n -> ExtraArgs] : n \in 0 .. MaxExtras}

LoopHandle == "/dev/loop0"

SizeArgs == {<<>>} \cup {<<n>> : n \in 0 .. MaxSizeMb}

NoImage == [present |-> FALSE, size |-> 0, zero |-> TRUE]

OldImage == [present |-> TRUE, size |-> 1, zero |-> FALSE]

Ev(op, arg, ret) == [op |-> op, arg |-> arg, ret |-> ret]

Rets == {0, 1}

----------------------------------------------------------------------------
(* Pure helpers *)

\* size_mb as main computes it from argv
size_mb ==
    IF sizeArg = <<>>
    THEN (IF prog = DiskProg THEN DefaultSizeDisk ELSE DefaultSizeFlat)
    ELSE sizeArg[1]

\* Fault: sector_count (line 38) bytes are written instead of the byte count
ImageBytesSectors(mb) == IF mb > 0 THEN (mb * BytesPerMb) \div 512 ELSE 0

\* len(b'\x00' * (size_mb * 1024 * 1024)): a non-positive count gives b''
ImageBytes(mb) == IF mb > 0 THEN mb * BytesPerMb ELSE 0

\* partition_dev = f"{loopdev}p1", or loopdev when that path does not exist
Suffixed(dev) == IF dev = LoopHandle THEN "/dev/loop0p1" ELSE dev

\* Fault: the suffixed partition node is assumed without looking
ResolveAlwaysSuffixed(dev, p1Exists) == Suffixed(dev)

ResolvePartition(dev, p1Exists) == IF p1Exists THEN Suffixed(dev) ELSE dev

\* an uncaught exception ends the process with status 1
Uncaught ==
    /\ pc' = "exit"
    /\ retval' = "raised"
    /\ exitCode' = <<1>>

----------------------------------------------------------------------------
Init ==
    /\ prog \in {DiskProg, FlatProg, ZipProg}
    /\ argsOk \in BOOLEAN
    /\ sizeArg \in (IF prog = ZipProg THEN {<<>>} ELSE SizeArgs)
    /\ kernelExists \in (IF prog = ZipProg THEN {TRUE} ELSE BOOLEAN)
    /\ initExists \in BOOLEAN
    /\ initData \in (IF prog = ZipProg /\ initExists THEN FileData ELSE {<<>>})
    /\ extras \in (IF prog = ZipProg THEN ExtraLists ELSE {<<>>})
    /\ preImage \in (IF prog = ZipProg THEN {NoImage} ELSE {NoImage, OldImage})
    /\ image = preImage
    /\ pc = "main"
    /\ log = <<>>
    /\ loopdev = ""
    /\ bound = FALSE
    /\ p1Node = FALSE
    /\ partition_dev = ""
    /\ mounted = FALSE
    /\ tmpdir = FALSE
    /\ tree = {}
    /\ archive = <<>>
    /\ exc = FALSE
    /\ warnings = {}
    /\ retval = "none"
    /\ exitCode = <<>>

----------------------------------------------------------------------------
(* create_disk_with_init.py *)

inputs == <<prog, argsOk, sizeArg, kernelExists, initExists, initData, extras,
            preImage>>

\* main(): argument count, pre-flight checks, then the pipeline
MainDisk ==
    /\ prog = DiskProg
    /\ pc = "main"
    /\ IF ~argsOk
       THEN /\ pc' = "exit"
            /\ exitCode' = <<1>>
            /\ UNCHANGED warnings
       ELSE IF ~kernelExists
       THEN /\ pc' = "exit"
            /\ exitCode' = <<1>>
            /\ warnings' = warnings \cup {"kernel not found"}
       ELSE /\ pc' = "alloc"
            /\ UNCHANGED exitCode
            /\ warnings' = IF initExists THEN warnings
                           ELSE warnings \cup {"main: init.bin not found"}
    /\ UNCHANGED <<inputs, archive,
                   image, log, loopdev, bound, p1Node, partition_dev, mounted,
                   tmpdir, tree, exc, retval>>

\* remove the old image, then write size_mb MiB of zero bytes
Allocate ==
    /\ prog = DiskProg
    /\ pc = "alloc"
    /\ \E outcome \in {"ok", "remove_fails", "open_fails", "write_fails"} :
         LET removed == IF image.present THEN <<Ev("remove", "image", 0)>> ELSE <<>>
         IN
         CASE outcome = "ok" ->
                /\ image' = [present |-> TRUE, size |-> ImageBytes(size_mb), zero |-> TRUE]
                /\ log' = log \o removed \o <<Ev("write", "image", 0)>>
                /\ pc' = "mklabel"
                /\ UNCHANGED <<retval, exitCode>>
           [] outcome = "remove_fails" ->
                /\ image.present
                /\ log' = Append(log, Ev("remove", "image", 1))
                /\ UNCHANGED image
                /\ Uncaught
           [] outcome = "open_fails" ->
                /\ image' = NoImage
                /\ log' = log \o removed \o <<Ev("open", "image", 1)>>
                /\ Uncaught
           [] outcome = "write_fails" ->
                /\ ImageBytes(size_mb) > 0
                /\ image' = [present |-> TRUE, size |-> 0, zero |-> TRUE]
                /\ log' = log \o removed \o <<Ev("write", "image", 1)>>
                /\ Uncaught
    /\ UNCHANGED <<inputs, archive,
                   loopdev, bound, p1Node, partition_dev, mounted, tmpdir, tree,
                   exc, warnings>>

\* run_cmd("parted -s <image> ...", check=False): one partitioning command
Parted(at, op, next, warn) ==
    /\ prog = DiskProg
    /\ pc = at
    /\ \E ret \in Rets :
         /\ log' = Append(log, Ev(op, "image", ret))
         /\ warnings' = IF ret # 0 /\ warn THEN warnings \cup {op}
                        ELSE warnings
         /\ image' = IF ret = 0 THEN [image EXCEPT !.zero = FALSE] ELSE image
    /\ pc' = next
    /\ UNCHANGED <<inputs, archive,
                   loopdev, bound, p1Node, partition_dev, mounted, tmpdir, tree,
                   exc, retval, exitCode>>

PartedMklabel == Parted("mklabel", "parted mklabel", "mkpart", TRUE)

PartedMkpart == Parted("mkpart", "parted mkpart", "setboot", TRUE)

PartedSetBoot == Parted("setboot", "parted set boot", "attach", FALSE)

\* losetup -f --show <image>; on failure losetup -f, which only names a free
\* device; no device at all returns False.  A bound device may or may not get
\* its partition node <loopdev>p1
Attach ==
    /\ prog = DiskProg
    /\ pc = "attach"
    /\ \E ret \in Rets, ret2 \in Rets :
         IF ret = 0
         THEN /\ ret2 = 0
              /\ log' = Append(log, Ev("losetup -f --show", "image", 0))
              /\ loopdev' = LoopHandle
              /\ bound' = TRUE
              /\ p1Node' \in BOOLEAN
              /\ warnings' = warnings
              /\ pc' = "resolve"
              /\ UNCHANGED <<retval, exitCode>>
         ELSE /\ log' = log \o <<Ev("losetup -f --show", "image", ret),
                                  Ev("losetup -f", "", ret2)>>
              /\ bound' = FALSE
              /\ p1Node' = FALSE
              /\ IF ret2 = 0
                 THEN /\ loopdev' = LoopHandle
                      /\ warnings' = warnings \cup {"could not find loop device"}
                      /\ pc' = "resolve"
                      /\ UNCHANGED <<retval, exitCode>>
                 ELSE /\ loopdev' = ""
                      /\ warnings' = warnings \cup {"could not find loop device",
                                                    "failed to get loop device"}
                      /\ pc' = "exit"
                      /\ retval' = "False"
                      /\ exitCode' = <<1>>
    /\ UNCHANGED <<inputs, archive, image, partition_dev, mounted, tmpdir, tree, exc>>

\* partition_dev = loopdev + "p1" when that node exists, else loopdev
Resolve ==
    /\ prog = DiskProg
    /\ pc = "resolve"
    /\ partition_dev' = ResolvePartition(loopdev, p1Node)
    /\ pc' = "mkfs"
    /\ UNCHANGED <<inputs, archive,
                   image, log, loopdev, bound, p1Node, mounted, tmpdir, tree,
                   exc, warnings, retval, exitCode>>

\* what a command on a device can return: nothing succeeds on a loop device
\* that has no backing file
DevRets == IF bound THEN Rets ELSE {1}

FormatTarget == partition_dev

\* Fault: no fallback, the mount follows mkfs.fat whatever it returned
FormatPrimaryNoFallback ==
    /\ prog = DiskProg
    /\ pc = "mkfs"
    /\ \E ret \in DevRets :
         /\ log' = Append(log, Ev("mkfs.fat", FormatTarget, ret))
         /\ warnings' = IF ret # 0 THEN warnings \cup {"mkfs.fat"} ELSE warnings
         /\ image' = IF ret = 0 THEN [image EXCEPT !.zero = FALSE] ELSE image
    /\ pc' = "mount"
    /\ UNCHANGED <<inputs, archive,
                   loopdev, bound, p1Node, partition_dev, mounted, tmpdir, tree,
                   exc, retval, exitCode>>

\* mkfs.fat -F 32 <partition_dev>
FormatPrimary ==
    /\ prog = DiskProg
    /\ pc = "mkfs"
    /\ \E ret \in DevRets :
         /\ log' = Append(log, Ev("mkfs.fat", FormatTarget, ret))
         /\ pc' = IF ret # 0 THEN "mkfs_alt" ELSE "mount"
         /\ warnings' = IF ret # 0 THEN warnings \cup {"mkfs.fat"} ELSE warnings
         /\ image' = IF ret = 0 THEN [image EXCEPT !.zero = FALSE] ELSE image
    /\ UNCHANGED <<inputs, archive,
                   loopdev, bound, p1Node, partition_dev, mounted, tmpdir, tree,
                   exc, retval, exitCode>>

\* Fault: both formatting tools failing aborts the run
FormatAlternateFatal ==
    /\ prog = DiskProg
    /\ pc = "mkfs_alt"
    /\ \E ret \in DevRets :
         /\ log' = Append(log, Ev("mkfs.vfat", FormatTarget, ret))
         /\ image' = IF ret = 0 THEN [image EXCEPT !.zero = FALSE] ELSE image
         /\ IF ret = 0
            THEN /\ pc' = "mount"
                 /\ UNCHANGED <<retval, exitCode>>
            ELSE /\ pc' = "exit"
                 /\ retval' = "False"
                 /\ exitCode' = <<1>>
    /\ UNCHANGED <<inputs, archive,
                   loopdev, bound, p1Node, partition_dev, mounted, tmpdir, tree,
                   exc, warnings>>

\* mkfs.vfat -F 32 <partition_dev>, only after mkfs.fat failed
FormatAlternate ==
    /\ prog = DiskProg
    /\ pc = "mkfs_alt"
    /\ \E ret \in DevRets :
         /\ log' = Append(log, Ev("mkfs.vfat", FormatTarget, ret))
         /\ image' = IF ret = 0 THEN [image EXCEPT !.zero = FALSE] ELSE image
    /\ pc' = "mount"
    /\ UNCHANGED <<inputs, archive,
                   loopdev, bound, p1Node, partition_dev, mounted, tmpdir, tree,
                   exc, warnings, retval, exitCode>>

MountTarget == partition_dev

\* Fault: the result of mount is not looked at, staging always follows
MountIgnoringFailure ==
    /\ prog = DiskProg
    /\ pc = "mount"
    /\ tmpdir' = TRUE
    /\ \E ret \in DevRets :
         /\ log' = Append(log, Ev("mount", partition_dev, ret))
         /\ mounted' = (ret = 0)
    /\ pc' = "mk_bin"
    /\ UNCHANGED <<inputs, archive,
                   image, loopdev, bound, p1Node, partition_dev, tree, exc,
                   warnings, retval, exitCode>>

\* with tempfile.TemporaryDirectory(): mount <partition_dev> <mount_point>
Mount ==
    /\ prog = DiskProg
    /\ pc = "mount"
    /\ tmpdir' = TRUE
    /\ \E ret \in DevRets :
         /\ log' = Append(log, Ev("mount", MountTarget, ret))
         /\ mounted' = (ret = 0)
         /\ pc' = IF ret = 0 THEN "mk_bin" ELSE "exit_tmp"
         /\ warnings' = IF ret = 0 THEN warnings
                        ELSE warnings \cup {"failed to mount"}
    /\ UNCHANGED <<inputs, archive,
                   image, loopdev, bound, p1Node, partition_dev, tree, exc,
                   retval, exitCode>>

\* one step of the try block: it writes paths below the mount point, or raises
\* (partial is what a failed write may leave behind) and control goes to finally
StageStep(at, op, paths, partial, next) ==
    /\ prog = DiskProg
    /\ pc = at
    /\ \/ /\ tree' = tree \cup paths
          /\ log' = Append(log, Ev(op, "mount_point", 0))
          /\ pc' = next
          /\ UNCHANGED exc
       \/ /\ \E left \in {{}, partial} : tree' = tree \cup left
          /\ log' = Append(log, Ev(op, "mount_point", 1))
          /\ pc' = "umount"
          /\ exc' = TRUE
    /\ UNCHANGED <<inputs, archive,
                   image, loopdev, bound, p1Node, partition_dev, mounted, tmpdir,
                   warnings, retval, exitCode>>

\* a step of the try block whose source file is absent: nothing is written
StageSkip(at, next, warn) ==
    /\ prog = DiskProg
    /\ pc = at
    /\ pc' = next
    /\ warnings' = warnings \cup warn
    /\ UNCHANGED <<inputs, archive,
                   image, log, loopdev, bound, p1Node, partition_dev, mounted,
                   tmpdir, tree, exc, retval, exitCode>>

MakedirsBin == StageStep("mk_bin", "makedirs bin", {"/bin"}, {}, "mk_usr")

\* Fault: /usr is not created ahead of the copies
MakedirsUsrLate == StageSkip("mk_usr", "cp_init", {})

MakedirsUsr == StageStep("mk_usr", "makedirs usr", {"/usr"}, {}, "cp_init")

\* Fault: a missing init binary ends the staging instead of being skipped
CopyInitMissingAborts ==
    IF initExists
    THEN StageStep("cp_init", "copy init.bin", {"/bin/init.bin"}, {"/bin/init.bin"},
                   "cp_kernel")
    ELSE StageSkip("cp_init", "umount", {"init.bin not found"})

CopyInit ==
    IF initExists
    THEN StageStep("cp_init", "copy init.bin", {"/bin/init.bin"}, {"/bin/init.bin"},
                   "cp_kernel")
    ELSE StageSkip("cp_init", "cp_kernel", {"init.bin not found"})

CopyKernel ==
    IF kernelExists
    THEN StageStep("cp_kernel", "copy bzImage", {"/bzImage"}, {"/bzImage"}, "mk_grub")
    ELSE StageSkip("cp_kernel", "mk_grub", {})

MakedirsBootGrub ==
    StageStep("mk_grub", "makedirs boot/grub", {"/boot", "/boot/grub"}, {"/boot"},
              "wr_cfg")

WriteGrubCfg ==
    StageStep("wr_cfg", "write grub.cfg", {"/boot/grub/grub.cfg"},
              {"/boot/grub/grub.cfg"}, "list")

\* os.walk listing of the staged tree
ListTree ==
    /\ prog = DiskProg
    /\ pc = "list"
    /\ log' = Append(log, Ev("list", "mount_point", 0))
    /\ pc' = "umount"
    /\ UNCHANGED <<inputs, archive,
                   image, loopdev, bound, p1Node, partition_dev, mounted, tmpdir,
                   tree, exc, warnings, retval, exitCode>>

\* Fault: the unmount is the last statement of the try body, not a finally
UnmountNotFinally ==
    /\ prog = DiskProg
    /\ pc = "umount"
    /\ IF exc
       THEN UNCHANGED <<log, mounted>>
       ELSE \E ret \in Rets :
              /\ log' = Append(log, Ev("umount", partition_dev, ret))
              /\ mounted' = (ret # 0)
    /\ pc' = "exit_tmp"
    /\ UNCHANGED <<inputs, archive,
                   image, loopdev, bound, p1Node, partition_dev, tmpdir, tree,
                   exc, warnings, retval, exitCode>>

\* Fault: the loop device is released in the finally block, ahead of umount
UnmountAfterDetach ==
    /\ prog = DiskProg
    /\ pc = "umount"
    /\ \E ret \in Rets :
         /\ log' = log \o <<Ev("losetup -d", loopdev, 1),
                            Ev("umount", partition_dev, ret)>>
         /\ mounted' = (ret # 0)
    /\ pc' = "exit_tmp"
    /\ UNCHANGED <<inputs, archive,
                   image, loopdev, bound, p1Node, partition_dev, tmpdir, tree,
                   exc, warnings, retval, exitCode>>

UnmountTarget == partition_dev

\* finally: run_cmd("umount <partition_dev>", check=False), result ignored
Unmount ==
    /\ prog = DiskProg
    /\ pc = "umount"
    /\ \E ret \in Rets :
         /\ log' = Append(log, Ev("umount", UnmountTarget, ret))
         /\ mounted' = (ret # 0)
    /\ pc' = "exit_tmp"
    /\ UNCHANGED <<inputs, archive,
                   image, loopdev, bound, p1Node, partition_dev, tmpdir, tree,
                   exc, warnings, retval, exitCode>>

\* Fault: a run that fails after staging removes the image it was building
ExitTmpdirRollback ==
    /\ prog = DiskProg
    /\ pc = "exit_tmp"
    /\ IF mounted
       THEN /\ tree' = {}
            /\ log' = Append(log, Ev("rmtree", "mount_point", 1))
            /\ image' = NoImage
            /\ UNCHANGED tmpdir
            /\ Uncaught
       ELSE /\ log' = Append(log, Ev("rmtree", "mount_point", 0))
            /\ tmpdir' = FALSE
            /\ UNCHANGED tree
            /\ IF exc
               THEN /\ image' = NoImage
                    /\ Uncaught
               ELSE /\ pc' = "detach"
                    /\ UNCHANGED <<image, retval, exitCode>>
    /\ UNCHANGED <<inputs, archive, loopdev, bound, p1Node, partition_dev, mounted,
                   exc, warnings>>

\* leaving the with block: the temporary directory is removed recursively.
\* While the volume is still mounted there, its content is deleted and the
\* removal of the mount point itself raises; a pending exception propagates.
ExitTmpdir ==
    /\ prog = DiskProg
    /\ pc = "exit_tmp"
    /\ IF mounted
       THEN /\ tree' = {}
            /\ log' = Append(log, Ev("rmtree", "mount_point", 1))
            /\ UNCHANGED tmpdir
            /\ Uncaught
       ELSE /\ log' = Append(log, Ev("rmtree", "mount_point", 0))
            /\ tmpdir' = FALSE
            /\ UNCHANGED tree
            /\ IF exc THEN Uncaught
               ELSE /\ pc' = "detach"
                    /\ UNCHANGED <<retval, exitCode>>
    /\ UNCHANGED <<inputs, archive,
                   image, loopdev, bound, p1Node, partition_dev, mounted, exc,
                   warnings>>

\* run_cmd("losetup -d <loopdev>", check=False); return True; main exits 0
Detach ==
    /\ prog = DiskProg
    /\ pc = "detach"
    /\ \E ret \in DevRets :
         /\ log' = Append(log, Ev("losetup -d", loopdev, ret))
         /\ bound' = (bound /\ ret # 0)
    /\ UNCHANGED p1Node
    /\ retval' = "True"
    /\ exitCode' = <<0>>
    /\ pc' = "exit"
    /\ UNCHANGED <<inputs, archive,
                   image, loopdev, partition_dev, mounted, tmpdir, tree,
                   exc, warnings>>

----------------------------------------------------------------------------
(* create_bootable_image.py *)

\* Fault: main() without the kernel pre-flight check
MainFlatNoPreflight ==
    /\ prog = FlatProg
    /\ pc = "main"
    /\ IF ~argsOk
       THEN /\ pc' = "exit"
            /\ exitCode' = <<1>>
       ELSE /\ pc' = "flat_alloc"
            /\ UNCHANGED exitCode
    /\ UNCHANGED <<inputs, archive,
                   image, log, loopdev, bound, p1Node, partition_dev, mounted,
                   tmpdir, tree, exc, warnings, retval>>

\* main(): argument count, kernel check, then create_disk_image
MainFlat ==
    /\ prog = FlatProg
    /\ pc = "main"
    /\ IF ~argsOk
       THEN /\ pc' = "exit"
            /\ exitCode' = <<1>>
            /\ UNCHANGED warnings
       ELSE IF ~kernelExists
       THEN /\ pc' = "exit"
            /\ exitCode' = <<1>>
            /\ warnings' = warnings \cup {"kernel not found"}
       ELSE /\ pc' = "flat_alloc"
            /\ UNCHANGED <<exitCode, warnings>>
    /\ UNCHANGED <<inputs, archive,
                   image, log, loopdev, bound, p1Node, partition_dev, mounted,
                   tmpdir, tree, exc, retval>>

\* open(output_image, 'wb') truncates; then size_mb MiB of zero bytes
AllocateFlat ==
    /\ prog = FlatProg
    /\ pc = "flat_alloc"
    /\ \E outcome \in {"ok", "open_fails", "write_fails"} :
         CASE outcome = "ok" ->
                /\ image' = [present |-> TRUE, size |-> ImageBytes(size_mb), zero |-> TRUE]
                /\ log' = Append(log, Ev("write", "image", 0))
                /\ pc' = "flat_losetup"
                /\ UNCHANGED <<retval, exitCode>>
           [] outcome = "open_fails" ->
                /\ UNCHANGED image
                /\ log' = Append(log, Ev("open", "image", 1))
                /\ Uncaught
           [] outcome = "write_fails" ->
                /\ ImageBytes(size_mb) > 0
                /\ image' = [present |-> TRUE, size |-> 0, zero |-> TRUE]
                /\ log' = Append(log, Ev("write", "image", 1))
                /\ Uncaught
    /\ UNCHANGED <<inputs, archive,
                   loopdev, bound, p1Node, partition_dev, mounted, tmpdir, tree,
                   exc, warnings>>

\* Fault: no try/except around the commands, a tool that cannot be started
\* ends the run
FlatCmdUncaught(at, op, next) ==
    /\ prog = FlatProg
    /\ pc = at
    /\ tmpdir' = TRUE
    /\ \/ \E ret \in Rets :
            /\ log' = Append(log, Ev(op, "image", ret))
            /\ image' = IF ret = 0 /\ op # "losetup -P"
                        THEN [image EXCEPT !.zero = FALSE] ELSE image
            /\ pc' = next
            /\ UNCHANGED <<retval, exitCode>>
       \/ /\ log' = Append(log, Ev(op, "not started", 1))
          /\ UNCHANGED image
          /\ Uncaught
    /\ UNCHANGED <<inputs, archive,
                   loopdev, bound, p1Node, partition_dev, mounted, tree, exc,
                   warnings>>

\* subprocess.run([...], check=False) inside try/except: a non-zero status is
\* ignored; a tool that cannot be started raises, which the bare except turns
\* into a warning and the remaining commands are skipped
FlatCmd(at, op, next) ==
    /\ prog = FlatProg
    /\ pc = at
    /\ tmpdir' = TRUE
    /\ \/ \E ret \in Rets :
            /\ log' = Append(log, Ev(op, "image", ret))
            /\ image' = IF ret = 0 /\ op # "losetup -P"
                        THEN [image EXCEPT !.zero = FALSE] ELSE image
            /\ pc' = next
            /\ UNCHANGED warnings
       \/ /\ log' = Append(log, Ev(op, "not started", 1))
          /\ warnings' = warnings \cup {"could not create partitioned image"}
          /\ pc' = "flat_return"
          /\ UNCHANGED image
    /\ UNCHANGED <<inputs, archive,
                   loopdev, bound, p1Node, partition_dev, mounted, tree, exc,
                   retval, exitCode>>

FlatLosetup == FlatCmd("flat_losetup", "losetup -P", "flat_mklabel")

FlatMklabel == FlatCmd("flat_mklabel", "parted mklabel", "flat_mkpart")

FlatMkpart == FlatCmd("flat_mkpart", "parted mkpart", "flat_return")

\* leave the with block; return True; main exits 0
FlatReturn ==
    /\ prog = FlatProg
    /\ pc = "flat_return"
    /\ tmpdir' = FALSE
    /\ retval' = "True"
    /\ exitCode' = <<0>>
    /\ pc' = "exit"
    /\ UNCHANGED <<inputs, archive,
                   image, log, loopdev, bound, p1Node, partition_dev, mounted,
                   tree, exc, warnings>>

----------------------------------------------------------------------------
(* create_initramfs_zip.py *)

\* os.path.basename
Basename(path) ==
    CASE path = "bin/sh" -> "sh"
      [] path = "alt/init" -> "init"
      [] OTHER -> path

\* host, zpath = extra.split(':', 1), or the base name when there is no ':'
ParseExtra(extra) ==
    IF extra.dest # <<>>
    THEN [host |-> extra.host, zpath |-> extra.dest[1]]
    ELSE [host |-> extra.host, zpath |-> Basename(extra.host)]

\* the member name zf.write stores for an archive path: leading separators
\* are dropped
ArcName(zpath) == IF zpath = "/init" THEN "init" ELSE zpath

\* ZIP_DEFLATED, as run-length coding: the runs <<byte, length>> of the data
RECURSIVE Deflate(_)
Deflate(data) ==
    IF data = <<>> THEN <<>>
    ELSE LET rest == Deflate(Tail(data))
         IN IF rest # <<>> /\ rest[1][1] = Head(data)
            THEN <<(<<Head(data), rest[1][2] + 1>>)>> \o Tail(rest)
            ELSE <<(<<Head(data), 1>>)>> \o rest

RECURSIVE Inflate(_)
Inflate(runs) ==
    IF runs = <<>> THEN <<>>
    ELSE [i \in 1 .. runs[1][2] |-> runs[1][1]] \o Inflate(Tail(runs))

\* zf.write(path, arcname): one member appended, duplicates included
Member(zpath, data) ==
    [filename |-> ArcName(zpath), file_size |-> Len(data), payload |-> Deflate(data)]

\* the for loop over extras: existing host files are added, others warned about
RECURSIVE AddExtras(_, _)
AddExtras(members, rest) ==
    IF rest = <<>> THEN members
    ELSE LET e == ParseExtra(Head(rest))
         IN IF HostIsFile(e.host)
            THEN AddExtras(Append(members, Member(e.zpath, HostData(e.host))), Tail(rest))
            ELSE AddExtras(members, Tail(rest))

diskState == <<image, loopdev, bound, p1Node, partition_dev, mounted, tmpdir, tree, exc>>

\* main(): usage and the init binary check
MainZip ==
    /\ prog = ZipProg
    /\ pc = "main"
    /\ IF ~argsOk
       THEN /\ pc' = "exit"
            /\ exitCode' = <<1>>
            /\ UNCHANGED warnings
       ELSE IF ~initExists
       THEN /\ pc' = "exit"
            /\ exitCode' = <<1>>
            /\ warnings' = warnings \cup {"init binary not found"}
       ELSE /\ pc' = "zip_init"
            /\ UNCHANGED <<exitCode, warnings>>
    /\ UNCHANGED <<inputs, archive, diskState, log, retval>>

\* zf.write(init_bin, 'init')
ZipWriteInit ==
    /\ prog = ZipProg
    /\ pc = "zip_init"
    /\ archive' = <<Member("init", initData)>>
    /\ log' = Append(log, Ev("zf.write", "init", 0))
    /\ pc' = "zip_extras"
    /\ UNCHANGED <<inputs, diskState, warnings, retval, exitCode>>

\* for extra in extras: zf.write(host, zpath) or a warning
ZipWriteExtras ==
    /\ prog = ZipProg
    /\ pc = "zip_extras"
    /\ archive' = AddExtras(archive, extras)
    /\ warnings' = IF \E i \in DOMAIN extras : ~HostIsFile(extras[i].host)
                   THEN warnings \cup {"extra file not found"} ELSE warnings
    /\ pc' = "zip_list"
    /\ UNCHANGED <<inputs, diskState, log, retval, exitCode>>

\* the listing of the archive that was built; main returns, exit status 0
ZipList ==
    /\ prog = ZipProg
    /\ pc = "zip_list"
    /\ log' = Append(log, Ev("infolist", "out_zip", 0))
    /\ exitCode' = <<0>>
    /\ pc' = "exit"
    /\ UNCHANGED <<inputs, archive, diskState, warnings, retval>>

----------------------------------------------------------------------------
Next ==
    \/ MainDisk
    \/ Allocate
    \/ PartedMklabel
    \/ PartedMkpart
    \/ PartedSetBoot
    \/ Attach
    \/ Resolve
    \/ FormatPrimary
    \/ FormatAlternate
    \/ Mount
    \/ MakedirsBin
    \/ MakedirsUsr
    \/ CopyInit
    \/ CopyKernel
    \/ MakedirsBootGrub
    \/ WriteGrubCfg
    \/ ListTree
    \/ Unmount
    \/ ExitTmpdir
    \/ Detach
    \/ MainFlat
    \/ AllocateFlat
    \/ FlatLosetup
    \/ FlatMklabel
    \/ FlatMkpart
    \/ FlatReturn
    \/ MainZip
    \/ ZipWriteInit
    \/ ZipWriteExtras
    \/ ZipList

Spec == Init /\ [][Next]_vars

----------------------------------------------------------------------------
(* Reading the log *)

Done == pc = "exit"

\* positions of the log holding operation op
At(op) == {i \in DOMAIN log : log[i].op = op}

Count(op) == Cardinality(At(op))

Succeeded(op) == \E i \in At(op) : log[i].ret = 0

Failed(op) == \E i \in At(op) : log[i].ret # 0

FormatOps == {"mkfs.fat", "mkfs.vfat"}

PartedOps == {"parted mklabel", "parted mkpart", "parted set boot"}

StageOps == {"makedirs bin", "makedirs usr", "copy init.bin", "copy bzImage",
             "makedirs boot/grub", "write grub.cfg", "list"}

\* losetup -f --show bound a device to the image
AttachSucceeded == Succeeded("losetup -f --show")

\* losetup -f --show was run and bound nothing
AttachFailed == Failed("losetup -f --show")

NoneOf(ops) == \A i \in DOMAIN log : log[i].op \notin ops

----------------------------------------------------------------------------
(* C1: in create_fat32_disk, every run in which the loop-device attach      *)
(* succeeded invokes losetup -d exactly once before it ends, on every exit  *)
(* path (success, formatting failure, mount failure, a staging step         *)
(* raising after mount).                                                    *)
C1_DetachExactlyOnce ==
    (prog = DiskProg /\ Done /\ AttachSucceeded) => Count("losetup -d") = 1

(* C2: once the mount has succeeded, an unmount is invoked before the run   *)
(* ends, on every exit path: all staging steps succeeded, a step only       *)
(* warned, or a step raised.                                                *)
C2_UnmountAfterMount ==
    (prog = DiskProg /\ Succeeded("mount") /\ pc \in {"exit_tmp", "detach", "exit"})
        => /\ Count("umount") = 1
           /\ \A i \in At("mount"), j \in At("umount") : i < j

C2_Witness ==
    /\ Done
    /\ exc
    /\ Succeeded("mount")
    /\ Failed("copy bzImage")
    /\ Count("umount") = 1

(* C3: attach is fatal when no handle could be bound to the image: the run  *)
(* returns failure and performs no format, mount, staging, unmount or       *)
(* detach step.                                                             *)
C3_UnboundIsFatal ==
    (prog = DiskProg /\ AttachFailed)
        => /\ NoneOf(FormatOps \cup StageOps \cup {"mount", "umount", "losetup -d"})
           /\ (Done => retval = "False")

(* C4: after a successful attach the resolved target is <handle>p1 when     *)
(* that node exists and the whole-device handle otherwise; every format     *)
(* invocation, the mount and the unmount target that one device, never the  *)
(* suffixed form when it does not exist.                                    *)
C4_OneResolvedTarget ==
    (prog = DiskProg /\ AttachSucceeded)
        => \A i \in DOMAIN log :
              log[i].op \in FormatOps \cup {"mount", "umount"}
                  => log[i].arg = (IF p1Node THEN "/dev/loop0p1" ELSE "/dev/loop0")

C4_Witness ==
    /\ AttachSucceeded
    /\ ~p1Node
    /\ \E i \in At("mkfs.vfat") : log[i].arg = "/dev/loop0"
    /\ \E i \in At("mount") : log[i].arg = "/dev/loop0"
    /\ \E i \in At("umount") : log[i].arg = "/dev/loop0"

(* C5: if the mount fails, the run performs no staging step and no unmount  *)
(* and goes directly to teardown, where the loop device is still detached.  *)
C5_MountFailureSkipsStaging ==
    (prog = DiskProg /\ Failed("mount"))
        => /\ NoneOf(StageOps \cup {"umount"})
           /\ tree = {}
           /\ pc \in {"exit_tmp", "detach", "exit"}
           /\ (Done => Count("losetup -d") = 1)

C5_Witness ==
    /\ Done
    /\ AttachSucceeded
    /\ Failed("mount")
    /\ Count("losetup -d") = 1

(* C6: a mount failure or an unmount failure is escalated: the pipeline's   *)
(* final result is failure (no True return, exit code 1).                   *)
C6_MountUnmountFailureEscalated ==
    (prog = DiskProg /\ Done /\ (Failed("mount") \/ Failed("umount")))
        => (retval # "True" /\ exitCode = <<1>>)

(* C7: degrade-and-continue: when nothing fails except partition-table      *)
(* commands, the formatting tools or a missing init binary, every pipeline  *)
(* step is executed and the run reports success (True, exit code 0).        *)
OnlyDegradedFailures ==
    /\ argsOk
    /\ kernelExists
    /\ \A i \in DOMAIN log : log[i].ret # 0 => log[i].op \in PartedOps \cup FormatOps

AllStepsExecuted ==
    /\ Succeeded("write")
    /\ \A op \in PartedOps : Count(op) = 1
    /\ AttachSucceeded
    /\ Count("mkfs.fat") = 1
    /\ Succeeded("mount")
    /\ \A op \in StageOps \ {"copy init.bin"} : Succeeded(op)
    /\ (initExists => Succeeded("copy init.bin"))
    /\ Succeeded("umount")
    /\ Count("losetup -d") = 1

C7_DegradeAndContinue ==
    (prog = DiskProg /\ Done /\ OnlyDegradedFailures)
        => (AllStepsExecuted /\ retval = "True" /\ exitCode = <<0>>)

C7_Witness ==
    /\ prog = DiskProg
    /\ Done
    /\ OnlyDegradedFailures
    /\ \A op \in PartedOps : Failed(op)
    /\ Failed("mkfs.fat")
    /\ Failed("mkfs.vfat")
    /\ ~initExists
    /\ retval = "True"

(* C8: mkfs.vfat is invoked exactly once if and only if mkfs.fat failed, so *)
(* a run formats at most twice and never after a success; whatever the      *)
(* outcome of formatting, the mount is attempted next.                      *)
C8_FormatFallback ==
    prog = DiskProg
        => /\ Count("mkfs.fat") <= 1
           /\ Count("mkfs.vfat") <= 1
           /\ \A i \in At("mkfs.vfat") :
                 i > 1 /\ log[i - 1].op = "mkfs.fat" /\ log[i - 1].ret # 0
           /\ (Failed("mkfs.fat") /\ pc # "mkfs_alt" => Count("mkfs.vfat") = 1)
           /\ \A i \in DOMAIN log :
                 (log[i].op \in FormatOps /\ i < Len(log))
                     => \/ log[i + 1].op = "mount"
                        \/ log[i].op = "mkfs.fat" /\ log[i].ret # 0
                                                  /\ log[i + 1].op = "mkfs.vfat"
           /\ (Count("mkfs.fat") = 1 /\ pc \notin {"mkfs_alt", "mount"}
                  => Count("mount") = 1)

C8_Witness ==
    /\ Failed("mkfs.fat")
    /\ Failed("mkfs.vfat")
    /\ Count("mount") = 1

(* C9: the steps of a disk-image run occur in the order Allocate,           *)
(* PartitionTable, Attach, Format, Mount, Stage, Unmount, Detach; no step   *)
(* is executed out of this order, and the detach never precedes the         *)
(* unmount.                                                                 *)
StepOf(op) ==
    CASE op \in {"remove", "open", "write"} -> 1
      [] op \in PartedOps -> 2
      [] op \in {"losetup -f --show", "losetup -f"} -> 3
      [] op \in FormatOps -> 4
      [] op = "mount" -> 5
      [] op \in StageOps -> 6
      [] op \in {"umount", "rmtree"} -> 7
      [] op = "losetup -d" -> 8

C9_LinearOrder ==
    prog = DiskProg
        => /\ \A i, j \in DOMAIN log : i < j => StepOf(log[i].op) <= StepOf(log[j].op)
           /\ \A n \in {5, 7, 8} :
                 Cardinality({i \in DOMAIN log : log[i].op # "rmtree"
                                                 /\ StepOf(log[i].op) = n}) <= 1

C9_Witness ==
    /\ prog = DiskProg
    /\ Done
    /\ retval = "True"
    /\ {StepOf(log[i].op) : i \in DOMAIN log} = 1 .. 8

(* C10: when the kernel path does not exist, both programs exit with code 1 *)
(* before any pipeline step: no image file is created or removed and no     *)
(* loop-device, mount or partitioning command is invoked.                   *)
C10_Preflight ==
    (argsOk /\ ~kernelExists)
        => /\ pc \in {"main", "exit"}
           /\ (Done => exitCode = <<1>>)
           /\ log = <<>>
           /\ image = preImage
           /\ ~tmpdir

C10_Witness ==
    /\ argsOk
    /\ ~kernelExists
    /\ Done
    /\ prog = FlatProg
    /\ preImage = OldImage
    /\ exitCode = <<1>>

(* C11: when the init binary is missing (the kernel exists; attach, mount   *)
(* and unmount succeed) the run completes successfully, the staged tree     *)
(* has no /bin/init.bin, a warning is recorded, and the kernel copy, the    *)
(* /boot/grub creation and the boot configuration write are performed.      *)
InitMissingRun ==
    /\ prog = DiskProg
    /\ Done
    /\ ~initExists
    /\ kernelExists
    /\ AttachSucceeded
    /\ Succeeded("mount")
    /\ Succeeded("umount")

InitMissingOutcome ==
    /\ retval = "True"
    /\ exitCode = <<0>>
    /\ "/bin/init.bin" \notin tree
    /\ Count("copy init.bin") = 0
    /\ "init.bin not found" \in warnings
    /\ Succeeded("copy bzImage")
    /\ Succeeded("makedirs boot/grub")
    /\ Succeeded("write grub.cfg")
    /\ {"/bzImage", "/boot/grub", "/boot/grub/grub.cfg"} \subseteq tree

JustAllocated == pc \in {"mklabel", "flat_losetup"}

C12_AllocatedImage ==
    (JustAllocated /\ size_mb > 0)
        => /\ image.present
           /\ image.size = size_mb * 1024 * 1024
           /\ image.zero
           /\ image # preImage

C12_Witness ==
    /\ JustAllocated
    /\ sizeArg = <<MaxSizeMb>>
    /\ preImage = OldImage
    /\ image.size = MaxSizeMb * 1024 * 1024

(* C13: during staging the directories /bin, /usr and /boot/grub are all    *)
(* created before any file is copied: no copy of the init binary or of the  *)
(* kernel happens before /boot/grub exists.                                 *)
CopyOps == {"copy init.bin", "copy bzImage"}

CreatedBefore(dirOp, i) == \E j \in At(dirOp) : j < i /\ log[j].ret = 0

\* the claim as stated
C13_AllDirsBeforeCopies ==
    prog = DiskProg
        => \A i \in DOMAIN log :
              log[i].op \in CopyOps
                  => /\ CreatedBefore("makedirs bin", i)
                     /\ CreatedBefore("makedirs usr", i)
                     /\ CreatedBefore("makedirs boot/grub", i)

\* /bin and /usr precede every copy, /boot/grub precedes the configuration
\* file and follows the copies
C13_DirsBeforeTheirFiles ==
    prog = DiskProg
        => \A i \in DOMAIN log :
              /\ log[i].op \in CopyOps
                    => /\ CreatedBefore("makedirs bin", i)
                       /\ CreatedBefore("makedirs usr", i)
                       /\ \A j \in At("makedirs boot/grub") : i < j
              /\ log[i].op = "write grub.cfg"
                    => CreatedBefore("makedirs boot/grub", i)

C13_Witness ==
    /\ Succeeded("copy init.bin")
    /\ Succeeded("copy bzImage")
    /\ Succeeded("write grub.cfg")

(* C14: flat-image variant: with an existing kernel and a successful        *)
(* allocation, create_disk_image returns success for every outcome of the   *)
(* loop-setup and partitioning commands (non-zero exit, tool absent), the   *)
(* program exits 0, and the image of the requested size stays on disk,      *)
(* still zero-filled when no partitioning command succeeded.                *)
C14_FlatNeverFailsOnPartitioning ==
    (prog = FlatProg /\ Done /\ kernelExists /\ Succeeded("write"))
        => /\ retval = "True"
           /\ exitCode = <<0>>
           /\ image.present
           /\ image.size = (IF size_mb > 0 THEN size_mb * 1024 * 1024 ELSE 0)
           /\ (~Succeeded("parted mklabel") /\ ~Succeeded("parted mkpart")
                  => image.zero)

C14_Witness ==
    /\ prog = FlatProg
    /\ Done
    /\ Failed("losetup -P")
    /\ \E i \in At("parted mklabel") : log[i].arg = "not started"
    /\ retval = "True"
    /\ image.zero
    /\ image.size > 0

(* C15: archive packaging: for every init binary and every list of extra    *)
(* host_path:archive_path arguments, including extras whose archive path    *)
(* (given, or defaulted to the base name) is init, the produced archive     *)
(* contains exactly one member named init.                                  *)
ArchiveBuilt == prog = ZipProg /\ Done /\ exitCode = <<0>>

Named(name) == {i \in DOMAIN archive : archive[i].filename = name}

C15_ExactlyOneInit == ArchiveBuilt => Cardinality(Named("init")) = 1

(* C16: archive round trip: for any existing init binary and any extras,    *)
(* the member named init has the size of the input init file and            *)
(* extracting it yields the content of the input init file.                 *)
C16_InitRoundTrip ==
    ArchiveBuilt
        => /\ Named("init") # {}
           /\ \A i \in Named("init") :
                 /\ archive[i].file_size = Len(initData)
                 /\ Inflate(archive[i].payload) = initData

(* C17: once allocation has completed, no later step of the run deletes,    *)
(* truncates or resizes the image file: its size stays                      *)
(* size_mb * 1024 * 1024 and the file is present when the run ends,         *)
(* whether the run reports success or failure.                              *)
C17_ImageSizeFixed ==
    (prog = DiskProg /\ Succeeded("write"))
        => /\ image.present
           /\ image.size = size_mb * 1024 * 1024

C17_Witness ==
    /\ prog = DiskProg
    /\ Done
    /\ Succeeded("write")
    /\ retval = "raised"
    /\ Failed("umount")
    /\ image.size = MaxSizeMb * 1024 * 1024

(* C18: every staging write (creating /bin, /usr, /boot/grub, copying the   *)
(* init binary and the kernel, writing grub.cfg) happens only while the     *)
(* resolved partition is mounted at the temporary mount point by this run:  *)
(* none before a successful mount, after the unmount, or in a run whose     *)
(* mount failed.                                                            *)
StagingPcs == {"mk_bin", "mk_usr", "cp_init", "cp_kernel", "mk_grub", "wr_cfg", "list"}

C18_StagingOnlyWhileMounted ==
    prog = DiskProg
        => /\ \A i \in DOMAIN log :
                 log[i].op \in StageOps
                     => /\ \E j \in At("mount") : j < i /\ log[j].ret = 0
                        /\ \A k \in At("umount") : i < k
           /\ (pc \in StagingPcs => mounted /\ tmpdir)
           /\ (tree # {} => Succeeded("mount"))
           /\ (Failed("mount") => NoneOf(StageOps) /\ tree = {})

C18_Witness ==
    /\ prog = DiskProg
    /\ Done
    /\ Succeeded("write grub.cfg")
    /\ Succeeded("umount")
    /\ ~mounted
    /\ "/boot/grub/grub.cfg" \in tree

(* C19: teardown only releases what the run acquired: losetup -d is invoked *)
(* only on a loop device this run attached to the image, and umount only on *)
(* a device this run mounted; neither is issued against a handle that was   *)
(* merely looked up as free.                                                *)
C19_TeardownOnlyAcquired ==
    prog = DiskProg
        => /\ \A i \in At("losetup -d") :
                 \E j \in At("losetup -f --show") : j < i /\ log[j].ret = 0
           /\ \A i \in At("umount") :
                 \E j \in At("mount") : j < i /\ log[j].ret = 0

(* C20: files staged into the volume are never removed by the run itself:   *)
(* no later step (unmount, removal of the temporary mount-point directory,  *)
(* detach) deletes a staged file or directory, also when the unmount fails  *)
(* and the volume is still mounted while the temporary directory is removed.*)
C20_StagedNeverRemoved == [][tree \subseteq tree']_vars

====
